---- MODULE Spec2Model ----
(***************************************************************************)
(* Model of the PDF batch pipeline: PDFProcessorOrchestrator (main.py),    *)
(* PDFExtractor (pdf_extractor.py), PDFAnalysisPipeline (llm_pipeline.py)  *)
(* and FileOrganizer (file_organizer.py).                                  *)
(*                                                                         *)
(* Strings whose characters matter (topics, folder labels) are sequences   *)
(* of one-character strings.  File names are the numbers 1..MaxFiles: the  *)
(* code only ever compares them for equality.                              *)
(*                                                                         *)
(* report.json is the only file the program reads back, so it is the only  *)
(* part of the output directory carried from one run to the next; the      *)
(* folders, copies and index are recorded for the run that made them.      *)
(***************************************************************************)
EXTENDS Integers, Sequences, FiniteSets, TLC

VARIABLES
    pdf_dir,        \* documents of the input directory: name -> document on disk
    report_json,    \* <output>/report.json: [exists, valid, data]
    index_json,     \* what this run wrote to <output>/index.json: [exists, data]
    out_dirs,       \* sub-folders this run made sure exist under the output root
    out_files,      \* destination paths this run copied a document to
    create_subdirs, \* FileOrganizer.create_subdirs
    pc,             \* position of the run
    pdf_files,      \* process_batch: list(pdf_dir.glob("*.pdf"))
    idx,            \* process_batch / organize_by_topic: loop position
    results,        \* self.results: name -> result (insertion order = pdf_files)
    processed_count,
    failed_count,
    batch_results,  \* value returned by process_batch
    file_mappings,  \* organize_files: the successful documents, in order
    organized,      \* organize_by_topic: topic -> destination paths
    invoked,        \* per document, the component calls made for it in this run
    attempted,      \* organize_by_topic: documents whose copy was attempted
    copy_failed,    \* organize_by_topic: documents whose copy raised
    llm_failed,     \* documents whose topic/summary model call raised in this run
    report_writes,  \* number of times this run wrote report.json
    exception,      \* the exception that escaped run(), "none" if none did
    succeeded,      \* files with status "success" in a complete earlier run,
                    \* since the input directory last changed
    arg,            \* a function called on its own: its arguments
    ret             \* a function called on its own: what it returned

vars == <<pdf_dir, report_json, index_json, out_dirs, out_files, create_subdirs,
          pc, pdf_files, idx, results, processed_count, failed_count,
          batch_results, file_mappings, organized, invoked, attempted,
          copy_failed, llm_failed, report_writes, exception, succeeded, arg, ret>>

\* ------------------------------------------------------------------ bounds
MaxFiles == 2
Files == 1..MaxFiles

\* ------------------------------------------------------------- characters
Min(a, b) == IF a <= b THEN a ELSE b

\* str.replace(old, new) for a one-character old and new
Replace(s, old, new) == [i \in 1..Len(s) |-> IF s[i] = old THEN new ELSE s[i]]

Uncategorized == <<"U","n","c","a","t","e","g","o","r","i","z","e","d">>
unknown == <<"u","n","k","n","o","w","n">>
TopicAI == <<"A","I">>
TopicFinance == <<"F","i","n","a","n","c","e">>
TopicSlash == <<"A","/","I">>

\* the topics the model's language model answers with
Topics == {TopicAI, TopicFinance, TopicSlash}

\* -------------------------------------------------------- file_organizer
invalid_chars == <<"<", ">", ":", "\"", "|", "?", "*", "/">>
MaxLabelLen == 50

RECURSIVE ReplaceAll(_, _, _)
ReplaceAll(s, chars, k) ==
    IF k > Len(chars) THEN s
    ELSE ReplaceAll(Replace(s, chars[k], "_"), chars, k + 1)

\* sanitize_folder_name replacing the spaces only
sanitize_folder_name_spaces_only(name) ==
    LET n1 == Replace(name, " ", "_")
    IN  IF n1 # <<>> THEN SubSeq(n1, 1, Min(MaxLabelLen, Len(n1))) ELSE unknown

\* sanitize_folder_name putting a leading underscore before the label
sanitize_folder_name_prefixed(name) ==
    LET n1 == Replace(name, " ", "_")
        n2 == <<"_">> \o ReplaceAll(n1, invalid_chars, 1)
    IN  SubSeq(n2, 1, Min(MaxLabelLen, Len(n2)))

\* sanitize_folder_name without the cut to 50 characters
sanitize_folder_name_no_cut(name) ==
    LET n1 == Replace(name, " ", "_")
        n2 == ReplaceAll(n1, invalid_chars, 1)
    IN  IF n2 # <<>> THEN n2 ELSE unknown

sanitize_folder_name(name) ==
    LET n1 == Replace(name, " ", "_")
        n2 == ReplaceAll(n1, invalid_chars, 1)
    IN  IF n2 # <<>> THEN SubSeq(n2, 1, Min(MaxLabelLen, Len(n2))) ELSE unknown

\* --------------------------------------------------------- pdf_extractor
\* A document on disk: whether the path exists and, if so, the text of each page.
Whitespace == {" ", "\n", "\t"}
BlankPage == <<" ">>
TextPage == <<"t">>
Doc(exists, pages) == [exists |-> exists, pages |-> pages]

\* the documents the input directory may hold
DocKinds == { Doc(FALSE, <<>>), Doc(TRUE, <<>>), Doc(TRUE, <<BlankPage>>),
              Doc(TRUE, <<TextPage>>) }

\* Config.MAX_PAGES_PER_PDF
MAX_PAGES_PER_PDF == 50

\* text.strip() is non-empty
HasText(text) == \E i \in 1..Len(text) : text[i] \notin Whitespace

RECURSIVE JoinLines(_)
JoinLines(texts) ==
    IF Len(texts) = 0 THEN <<>>
    ELSE IF Len(texts) = 1 THEN texts[1]
    ELSE texts[1] \o <<"\n">> \o JoinLines(Tail(texts))

Raise(msg) == [raised |-> TRUE, error |-> msg, text |-> <<>>]

\* extract_text handing back whatever it collected, even nothing
\* min(self.max_pages, num_pages) if self.max_pages else num_pages: a
\* max_pages of 0 is false, as None is
page_count_to_extract(max_pages, num_pages) ==
    IF max_pages # 0 THEN Min(max_pages, num_pages) ELSE num_pages

\* the indexes i of the pages whose page.extract_text() is called
pages_read(max_pages, doc) ==
    IF doc.exists THEN 1..page_count_to_extract(max_pages, Len(doc.pages)) ELSE {}

extract_text_blank_ok(max_pages, doc) ==
    IF ~doc.exists THEN Raise("PDF file not found")
    ELSE LET num_pages == Len(doc.pages)
             pages_to_extract == page_count_to_extract(max_pages, num_pages)
             text_content == SelectSeq(SubSeq(doc.pages, 1, pages_to_extract), HasText)
         IN  [raised |-> FALSE, error |-> "", text |-> JoinLines(text_content)]

extract_text(max_pages, doc) ==
    IF ~doc.exists THEN Raise("PDF file not found")
    ELSE LET num_pages == Len(doc.pages)
             pages_to_extract == page_count_to_extract(max_pages, num_pages)
             text_content == SelectSeq(SubSeq(doc.pages, 1, pages_to_extract), HasText)
         IN  IF num_pages = 0 THEN Raise("PDF has no pages")
             ELSE IF text_content = <<>> THEN Raise("No readable text found in PDF")
             ELSE [raised |-> FALSE, error |-> "", text |-> JoinLines(text_content)]

extract_metadata(doc) ==
    IF doc.exists THEN [num_pages |-> Len(doc.pages)]
    ELSE [error |-> "could not read"]

\* ---------------------------------------------------------- llm_pipeline
\* Outcome of one self.llm.invoke(prompt): it raises, or answers with a response.
\* A response either holds a JSON object (with or without a "topic" key) or is
\* free text.
LLMRaise == [raised |-> TRUE, json |-> FALSE, has_topic |-> FALSE, topic |-> <<>>]
LLMJson(t) == [raised |-> FALSE, json |-> TRUE, has_topic |-> TRUE, topic |-> t]
LLMText == [raised |-> FALSE, json |-> FALSE, has_topic |-> FALSE, topic |-> <<>>]

\* the outcomes of the topic call the model draws from
LLMOutcomes == {LLMRaise, LLMText} \cup {LLMJson(t) : t \in Topics}

parse_response(response) ==
    IF response.json
    THEN [topic |-> IF response.has_topic THEN response.topic ELSE Uncategorized,
          summary |-> "model summary"]
    ELSE [topic |-> Uncategorized, summary |-> "response text"]

\* generate_topic_and_summary whose except clause hands back an empty analysis
generate_topic_and_summary_empty(invoke) ==
    IF invoke.raised
    THEN [topic |-> <<>>, summary |-> "", error |-> "model call failed"]
    ELSE parse_response(invoke)

generate_topic_and_summary(invoke) ==
    IF invoke.raised
    THEN [topic |-> Uncategorized, summary |-> "Failed to process",
          error |-> "model call failed"]
    ELSE parse_response(invoke)

\* Outcome of the entity call: it raises, or the response holds a JSON array.
\* The two calls of one document go to the same endpoint: the model takes the
\* entity call to raise exactly when the topic call did.
EntityOutcome(invoke) == IF invoke.raised THEN "raise" ELSE "array"

extract_key_entities(invoke) ==
    IF invoke = "raise" THEN <<>> ELSE <<"entity">>

\* ------------------------------------------------------------------ main
NoReport == [exists |-> FALSE, valid |-> FALSE,
             data |-> [summary |-> [total_files |-> 0, processed |-> 0, failed |-> 0,
                                    topics_identified |-> 0],
                       topics |-> <<>>, processing_details |-> <<>>]]
\* a report.json whose content is not a JSON document (a write that stopped midway)
BrokenReport == [NoReport EXCEPT !.exists = TRUE]
EmptyMap == [x \in {} |-> 0]
NoIndex == [exists |-> FALSE, data |-> EmptyMap]

Put(map, key, value) ==
    [k \in DOMAIN map \cup {key} |-> IF k = key THEN value ELSE map[k]]
\* dict.get(key, default)
Get(map, key, default) == IF key \in DOMAIN map THEN map[key] ELSE default

\* the values of a sequence
Range(seq) == {seq[i] : i \in 1..Len(seq)}
\* list(pdf_dir.glob("*.pdf")): the file system lists an unchanged directory in
\* one fixed order; the names are numbered in that order
RECURSIVE Listing(_)
Listing(names) ==
    IF names = {} THEN <<>>
    ELSE LET first == CHOOSE n \in names : \A m \in names : n <= m
         IN  <<first>> \o Listing(names \ {first})

ExtractorCalls == {"extract_text", "extract_metadata"}
AnalysisCalls == {"generate_topic_and_summary", "extract_key_entities"}

\* the file names listed in a report's processing_details
ReportedFiles(report) ==
    {report.data.processing_details[i].file :
        i \in 1..Len(report.data.processing_details)}

\* process_document without its except clause: an extraction error escapes
process_document_uncaught(name, doc, invoke, entity_invoke) ==
    LET text == extract_text(MAX_PAGES_PER_PDF, doc)
        analysis == generate_topic_and_summary(invoke)
    IN  [exception |-> IF text.raised THEN "extract_text" ELSE "none",
         calls |-> IF text.raised THEN {"extract_text"}
                   ELSE ExtractorCalls \cup AnalysisCalls,
         result |-> [file |-> name, status |-> "success",
                     metadata |-> extract_metadata(doc),
                     analysis |-> [topic |-> analysis.topic,
                                   summary |-> analysis.summary,
                                   entities |-> extract_key_entities(entity_invoke)]]]

\* process_pdf, the try block: extraction then analysis of one document.
\* `invoke` and `entity_invoke` are the outcomes of the two model calls should
\* they be made.  Yields the result, the exception that escapes ("none": the
\* except clause catches them all) and the component calls made.
process_document(name, doc, invoke, entity_invoke) ==
    LET text == extract_text(MAX_PAGES_PER_PDF, doc)
        analysis == generate_topic_and_summary(invoke)
        entities == extract_key_entities(entity_invoke)
    IN  IF text.raised
        THEN [exception |-> "none", calls |-> {"extract_text"},
              result |-> [file |-> name, status |-> "error", error |-> text.error]]
        ELSE [exception |-> "none", calls |-> ExtractorCalls \cup AnalysisCalls,
              result |-> [file |-> name, status |-> "success",
                          metadata |-> extract_metadata(doc),
                          analysis |-> [topic |-> analysis.topic,
                                        summary |-> analysis.summary,
                                        entities |-> entities]]]

\* process_pdf with the skip check looking at the wrong key: nothing is skipped
process_pdf_no_skip(name, doc, report, invoke, entity_invoke) ==
    IF report.exists /\ ~report.valid
    THEN [exception |-> "report_read", calls |-> {},
          result |-> [file |-> name, status |-> "none"]]
    ELSE process_document(name, doc, invoke, entity_invoke)

\* process_pdf(pdf_path): `report` is report.json as found on disk.  Reading a
\* report that is not JSON raises before the try block is entered.
process_pdf(name, doc, report, invoke, entity_invoke) ==
    IF report.exists /\ ~report.valid
    THEN [exception |-> "report_read", calls |-> {},
          result |-> [file |-> name, status |-> "none"]]
    ELSE IF report.exists /\ name \in ReportedFiles(report)
    THEN [exception |-> "none", calls |-> {},
          result |-> [file |-> name, status |-> "skipped"]]
    ELSE process_document(name, doc, invoke, entity_invoke)

\* next_processed counting every result that is not an error
next_processed_not_error(count, result) ==
    IF result.status # "error" THEN count + 1 ELSE count

\* process_batch's counters after one more result
next_processed(count, result) ==
    IF result.status = "success" THEN count + 1 ELSE count

next_failed(count, result) ==
    IF result.status = "error" THEN count + 1 ELSE count

\* Before a run globs the input directory the user drops one more PDF into it.
AddPdf ==
    /\ pc \in {"none", "constructed"}
    /\ \E name \in Files \ DOMAIN pdf_dir, doc \in DocKinds :
          pdf_dir' = Put(pdf_dir, name, doc)
    /\ UNCHANGED <<report_json, index_json, out_dirs, out_files, create_subdirs,
                   pc, pdf_files, idx, results, processed_count, failed_count,
                   batch_results, file_mappings, organized, invoked, attempted,
                   copy_failed, llm_failed, report_writes, exception>>
    /\ succeeded' = {}
    /\ UNCHANGED <<arg, ret>>

\* __init__: a fresh orchestrator (every run of main() builds one)
Construct ==
    /\ pc \in {"none", "done", "raised"}
    /\ pc' = "constructed"
    /\ exception' = "none"
    /\ create_subdirs' = TRUE
    /\ results' = EmptyMap
    /\ pdf_files' = <<>>
    /\ idx' = 0
    /\ processed_count' = 0
    /\ failed_count' = 0
    /\ batch_results' = [processed |-> 0, failed |-> 0]
    /\ file_mappings' = <<>>
    /\ organized' = EmptyMap
    /\ invoked' = [f \in Files |-> {}]
    /\ attempted' = {}
    /\ copy_failed' = {}
    /\ llm_failed' = {}
    /\ report_writes' = 0
    /\ index_json' = NoIndex
    /\ out_dirs' = {}
    /\ out_files' = {}
    /\ UNCHANGED <<pdf_dir, report_json>>
    /\ succeeded' = IF pc = "done"
                     THEN succeeded \cup
                          {name \in DOMAIN results : results[name].status = "success"}
                     ELSE succeeded
    /\ UNCHANGED <<arg, ret>>

\* run() enters process_batch: the glob, and the early return on an empty listing
BatchStart ==
    /\ pc = "constructed"
    /\ LET listing == Listing(DOMAIN pdf_dir)
       IN /\ pdf_files' = listing
          /\ IF listing = <<>>
             THEN /\ batch_results' = [processed |-> 0, failed |-> 0]
                  /\ pc' = "batch_returned"
                  /\ idx' = 0
             ELSE /\ batch_results' = batch_results
                  /\ pc' = "batch"
                  /\ idx' = 1
    /\ processed_count' = 0
    /\ failed_count' = 0
    /\ UNCHANGED <<pdf_dir, report_json, index_json, out_dirs, out_files,
                   create_subdirs, results, file_mappings, organized, invoked,
                   attempted, copy_failed, llm_failed, report_writes, exception>>
    /\ UNCHANGED <<succeeded, arg, ret>>

\* one iteration of process_batch's loop: process_pdf and the bookkeeping
ProcessPdf ==
    /\ pc = "batch"
    /\ idx <= Len(pdf_files)
    /\ \E invoke \in LLMOutcomes :
          LET name == pdf_files[idx]
              r == process_pdf(name, pdf_dir[name], report_json, invoke,
                               EntityOutcome(invoke))
          IN  IF r.exception # "none"
              THEN /\ pc' = "raised"
                   /\ exception' = r.exception
                   /\ UNCHANGED <<idx, results, processed_count, failed_count,
                                  invoked, llm_failed>>
              ELSE /\ pc' = pc
                   /\ exception' = exception
                   /\ idx' = idx + 1
                   /\ results' = Put(results, name, r.result)
                   /\ processed_count' = next_processed(processed_count, r.result)
                   /\ failed_count' = next_failed(failed_count, r.result)
                   /\ invoked' = [invoked EXCEPT ![name] = @ \cup r.calls]
                   /\ llm_failed' =
                          IF "generate_topic_and_summary" \in r.calls /\ invoke.raised
                          THEN llm_failed \cup {name} ELSE llm_failed
    /\ UNCHANGED <<pdf_dir, report_json, index_json, out_dirs, out_files,
                   create_subdirs, pdf_files, batch_results, file_mappings,
                   organized, attempted, copy_failed, report_writes>>
    /\ UNCHANGED <<succeeded, arg, ret>>

\* process_batch returns its counts
BatchReturn ==
    /\ pc = "batch"
    /\ idx > Len(pdf_files)
    /\ batch_results' = [processed |-> processed_count, failed |-> failed_count,
                         total |-> Len(pdf_files)]
    /\ pc' = "batch_returned"
    /\ UNCHANGED <<pdf_dir, report_json, index_json, out_dirs, out_files,
                   create_subdirs, pdf_files, idx, results, processed_count,
                   failed_count, file_mappings, organized, invoked, attempted,
                   copy_failed, llm_failed, report_writes, exception>>
    /\ UNCHANGED <<succeeded, arg, ret>>

\* Config.GENERATE_INDEX
GENERATE_INDEX == TRUE

\* the keys of self.results whose status is "success", in insertion order
Successful(order, res) ==
    LET ok(name) == name \in DOMAIN res /\ res[name].status = "success"
    IN  SelectSeq(order, ok)

\* a destination under the output root: <root>/<dir>/<name> in sub-directory mode,
\* <root>/<prefix>_<name> in flat mode
DestPath(subdirs, folder_name, name) ==
    IF subdirs THEN [dir |-> folder_name, prefix |-> <<>>, name |-> name]
    ELSE [dir |-> <<>>, prefix |-> folder_name, name |-> name]

\* Path.name of a destination
BaseName(path) == [prefix |-> path.prefix, name |-> path.name]

\* organize_one appending the destination before the copy is tried
organize_one_lists_first(subdirs, name, analysis_data, mkdir_ok, copy_ok) ==
    LET topic == Get(analysis_data, "topic", Uncategorized)
        folder_name == sanitize_folder_name(topic)
    IN  [exception |-> IF subdirs /\ ~mkdir_ok THEN "mkdir" ELSE "none",
         made |-> IF subdirs /\ mkdir_ok THEN {folder_name} ELSE {},
         topic |-> topic,
         dest |-> DestPath(subdirs, folder_name, name),
         copied |-> copy_ok,
         listed |-> TRUE]

\* one iteration of organize_by_topic's loop, for document `name` with
\* analysis `analysis_data`; mkdir_ok and copy_ok are what the file system does.
\* mkdir is called outside the try block, copy2 inside it: `exception` is what
\* escapes, `made` the folder made sure to exist, `copied` whether the file is
\* at `dest` afterwards, `listed` whether `dest` is appended under `topic`.
organize_one(subdirs, name, analysis_data, mkdir_ok, copy_ok) ==
    LET topic == Get(analysis_data, "topic", Uncategorized)
        folder_name == sanitize_folder_name(topic)
    IN  [exception |-> IF subdirs /\ ~mkdir_ok THEN "mkdir" ELSE "none",
         made |-> IF subdirs /\ mkdir_ok THEN {folder_name} ELSE {},
         topic |-> topic,
         dest |-> DestPath(subdirs, folder_name, name),
         copied |-> copy_ok,
         listed |-> copy_ok]

\* organize_files up to the call of organize_by_topic
OrganizeStart ==
    /\ pc = "batch_returned"
    /\ LET mappings == Successful(pdf_files, results)
       IN  /\ file_mappings' = mappings
           /\ IF mappings = <<>>
              THEN pc' = "organized"
              ELSE pc' = "organizing"
    /\ organized' = EmptyMap
    /\ idx' = 1
    /\ UNCHANGED <<pdf_dir, report_json, index_json, out_dirs, out_files,
                   create_subdirs, pdf_files, results, processed_count,
                   failed_count, batch_results, invoked, attempted, copy_failed,
                   llm_failed, report_writes, exception>>
    /\ UNCHANGED <<succeeded, arg, ret>>

\* the source document after a move in place of the copy: it is gone
source_after_move(doc) == Doc(FALSE, <<>>)

\* the source document after shutil.copy2(pdf_path, dest_path): as it was
source_after_copy(doc) == doc

OrganizeOne ==
    /\ pc = "organizing"
    /\ idx <= Len(file_mappings)
    /\ \E mkdir_ok \in BOOLEAN, copy_ok \in BOOLEAN :
          LET name == file_mappings[idx]
              r == organize_one(create_subdirs, name, results[name].analysis,
                                mkdir_ok, copy_ok)
          IN  IF r.exception # "none"
              THEN /\ pc' = "raised"
                   /\ exception' = r.exception
                   /\ UNCHANGED <<pdf_dir, idx, out_dirs, out_files, organized,
                                  attempted, copy_failed>>
              ELSE /\ pc' = pc
                   /\ exception' = exception
                   /\ idx' = idx + 1
                   /\ out_dirs' = out_dirs \cup r.made
                   /\ attempted' = attempted \cup {name}
                   /\ pdf_dir' = IF r.copied
                                  THEN [pdf_dir EXCEPT ![name] = source_after_copy(@)]
                                  ELSE pdf_dir
                   /\ out_files' = IF r.copied THEN out_files \cup {r.dest}
                                   ELSE out_files
                   /\ organized' =
                          IF r.listed
                          THEN Put(organized, r.topic,
                                   Append(Get(organized, r.topic, <<>>), r.dest))
                          ELSE organized
                   /\ copy_failed' = IF copy_ok THEN copy_failed
                                     ELSE copy_failed \cup {name}
    /\ UNCHANGED <<report_json, index_json, create_subdirs, pdf_files,
                   results, processed_count, failed_count, batch_results,
                   file_mappings, invoked, llm_failed, report_writes>>
    /\ UNCHANGED <<succeeded, arg, ret>>

\* generate_index walking self.results instead of the mappings it is given
generate_index_all_results(mappings, res) ==
    LET analysis(name) ==
            Get(res[name], "analysis", [topic |-> <<>>, summary |-> "", entities |-> <<>>])
    IN  [name \in DOMAIN res |->
            [topic |-> analysis(name).topic, summary |-> analysis(name).summary,
             entities |-> analysis(name).entities]]

\* generate_index: the index it serializes
generate_index(mappings, res) ==
    [name \in Range(mappings) |->
        [topic |-> Get(res[name].analysis, "topic", <<>>),
         summary |-> Get(res[name].analysis, "summary", ""),
         entities |-> Get(res[name].analysis, "entities", <<>>)]]

\* organize_by_topic returns; organize_files writes the index and returns
OrganizeReturn ==
    /\ pc = "organizing"
    /\ idx > Len(file_mappings)
    /\ \E write_ok \in BOOLEAN :
          index_json' =
              IF ~GENERATE_INDEX THEN index_json
              ELSE IF write_ok
              THEN [exists |-> TRUE, data |-> generate_index(file_mappings, results)]
              ELSE index_json
    /\ pc' = "organized"
    /\ UNCHANGED <<pdf_dir, report_json, out_dirs, out_files, create_subdirs,
                   pdf_files, idx, results, processed_count, failed_count,
                   batch_results, file_mappings, organized, invoked, attempted,
                   copy_failed, llm_failed, report_writes, exception>>
    /\ UNCHANGED <<succeeded, arg, ret>>

\* build_report listing every result in processing_details, whatever its status
build_report_every_result(batch, org, order, res) ==
    LET analysis(name) == Get(res[name], "analysis", [topic |-> <<>>, summary |-> ""])
        details(name) == [file |-> name, topic |-> analysis(name).topic,
                          summary |-> analysis(name).summary]
    IN  [summary |-> [total_files |-> Get(batch, "total", 0),
                      processed |-> Get(batch, "processed", 0),
                      failed |-> Get(batch, "failed", 0),
                      topics_identified |-> Cardinality(DOMAIN org)],
         topics |-> [topic \in DOMAIN org |->
                        [file_count |-> Len(org[topic]),
                         files |-> [i \in 1..Len(org[topic]) |-> BaseName(org[topic][i])]]],
         processing_details |-> [i \in 1..Len(order) |-> details(order[i])]]

\* build_report reading the batch's total without a default
build_report_no_default(batch, org, order, res) ==
    LET details(name) == [file |-> name, topic |-> res[name].analysis.topic,
                          summary |-> res[name].analysis.summary]
        ok == Successful(order, res)
    IN  [summary |-> [total_files |-> Get(batch, "total", -1),
                      processed |-> Get(batch, "processed", -1),
                      failed |-> Get(batch, "failed", -1),
                      topics_identified |-> Cardinality(DOMAIN org)],
         topics |-> [topic \in DOMAIN org |->
                        [file_count |-> Len(org[topic]),
                         files |-> [i \in 1..Len(org[topic]) |-> BaseName(org[topic][i])]]],
         processing_details |-> [i \in 1..Len(ok) |-> details(ok[i])]]

\* _generate_report: the report it serializes
build_report(batch, org, order, res) ==
    LET details(name) == [file |-> name, topic |-> res[name].analysis.topic,
                          summary |-> res[name].analysis.summary]
        ok == Successful(order, res)
    IN  [summary |-> [total_files |-> Get(batch, "total", 0),
                      processed |-> Get(batch, "processed", 0),
                      failed |-> Get(batch, "failed", 0),
                      topics_identified |-> Cardinality(DOMAIN org)],
         topics |-> [topic \in DOMAIN org |->
                        [file_count |-> Len(org[topic]),
                         files |-> [i \in 1..Len(org[topic]) |-> BaseName(org[topic][i])]]],
         processing_details |-> [i \in 1..Len(ok) |-> details(ok[i])]]

\* what open(report_path, "w") and json.dump may do
WriteOutcomes == {"written", "open_failed", "dump_failed"}

\* write_report adding to the entries of the report already there
write_report_append(old, new, outcome) ==
    IF outcome = "written"
    THEN [exists |-> TRUE, valid |-> TRUE,
          data |-> [new EXCEPT !.processing_details =
                                   old.data.processing_details \o @]]
    ELSE IF outcome = "dump_failed" THEN BrokenReport
    ELSE old

\* report.json after _generate_report, by the outcome of the write
write_report(old, new, outcome) ==
    IF outcome = "written" THEN [exists |-> TRUE, valid |-> TRUE, data |-> new]
    ELSE IF outcome = "dump_failed" THEN BrokenReport
    ELSE old

GenerateReport ==
    /\ pc = "organized"
    /\ \E outcome \in WriteOutcomes :
          /\ report_json' =
                 write_report(report_json,
                              build_report(batch_results, organized, pdf_files, results),
                              outcome)
          /\ report_writes' = IF outcome = "open_failed" THEN report_writes
                              ELSE report_writes + 1
          /\ IF outcome = "written"
             THEN pc' = "done" /\ exception' = exception
             ELSE pc' = "raised" /\ exception' = "report_write"
    /\ UNCHANGED <<pdf_dir, index_json, out_dirs, out_files, create_subdirs,
                   pdf_files, idx, results, processed_count, failed_count,
                   batch_results, file_mappings, organized, invoked, attempted,
                   copy_failed, llm_failed>>
    /\ UNCHANGED <<succeeded, arg, ret>>

\* ------------------------------------------------------------ the system
\* Empty input and output directories, no orchestrator yet.
Init ==
    /\ pdf_dir = EmptyMap
    /\ report_json = NoReport
    /\ index_json = NoIndex
    /\ out_dirs = {}
    /\ out_files = {}
    /\ create_subdirs = TRUE
    /\ pc = "none"
    /\ exception = "none"
    /\ pdf_files = <<>>
    /\ idx = 0
    /\ results = EmptyMap
    /\ processed_count = 0
    /\ failed_count = 0
    /\ batch_results = [processed |-> 0, failed |-> 0]
    /\ file_mappings = <<>>
    /\ organized = EmptyMap
    /\ invoked = [f \in Files |-> {}]
    /\ attempted = {}
    /\ copy_failed = {}
    /\ llm_failed = {}
    /\ report_writes = 0
    /\ succeeded = {}
    /\ arg = <<>>
    /\ ret = <<>>

Next ==
    \/ AddPdf
    \/ Construct
    \/ BatchStart
    \/ ProcessPdf
    \/ BatchReturn
    \/ OrganizeStart
    \/ OrganizeOne
    \/ OrganizeReturn
    \/ GenerateReport

Spec == Init /\ [][Next]_vars

\* ------------------------------------------------- the organizer on its own
\* FileOrganizer(base, create_subdirs).organize_by_topic(file_mappings) called
\* directly, in either placement mode, on any mapping of existing source files
\* to analyses.  `arg` keeps the source files as they were before the call.
SourceDocs == {doc \in DocKinds : doc.exists}
MappedAnalyses ==
    {[topic |-> topic, summary |-> "model summary", entities |-> <<>>] :
        topic \in Topics \cup {Uncategorized}}

InitOrganizer ==
    /\ create_subdirs \in BOOLEAN
    /\ pdf_dir \in UNION {[names -> SourceDocs] : names \in SUBSET Files}
    /\ \E analyses \in [DOMAIN pdf_dir -> MappedAnalyses] :
          results = [name \in DOMAIN pdf_dir |->
                        [file |-> name, status |-> "success",
                         analysis |-> analyses[name]]]
    /\ file_mappings = Listing(DOMAIN pdf_dir)
    /\ pdf_files = Listing(DOMAIN pdf_dir)
    /\ arg = pdf_dir
    /\ ret = <<>>
    /\ pc = "organizing"
    /\ idx = 1
    /\ organized = EmptyMap
    /\ report_json = NoReport
    /\ index_json = NoIndex
    /\ out_dirs = {}
    /\ out_files = {}
    /\ exception = "none"
    /\ processed_count = 0
    /\ failed_count = 0
    /\ batch_results = [processed |-> 0, failed |-> 0]
    /\ invoked = [f \in Files |-> {}]
    /\ attempted = {}
    /\ copy_failed = {}
    /\ llm_failed = {}
    /\ report_writes = 0
    /\ succeeded = {}

\* organize_by_topic returns the mapping it built
OrganizeByTopicReturn ==
    /\ pc = "organizing"
    /\ idx > Len(file_mappings)
    /\ pc' = "returned"
    /\ UNCHANGED <<pdf_dir, report_json, index_json, out_dirs, out_files,
                   create_subdirs, pdf_files, idx, results, processed_count,
                   failed_count, batch_results, file_mappings, organized, invoked,
                   attempted, copy_failed, llm_failed, report_writes, exception,
                   succeeded, arg, ret>>

NextOrganizer ==
    \/ OrganizeOne
    \/ OrganizeByTopicReturn

SpecOrganizer == InitOrganizer /\ [][NextOrganizer]_vars

\* ------------------------------------------- the functions on their own
\* The state of the orchestrator while one of its components is exercised
\* directly: nothing constructed, nothing on disk.
orchestrator_vars ==
    <<pdf_dir, report_json, index_json, out_dirs, out_files, create_subdirs,
      pdf_files, idx, results, processed_count, failed_count, batch_results,
      file_mappings, organized, invoked, attempted, copy_failed, llm_failed,
      report_writes, exception, succeeded>>

NoOrchestrator ==
    /\ pdf_dir = EmptyMap
    /\ report_json = NoReport
    /\ index_json = NoIndex
    /\ out_dirs = {}
    /\ out_files = {}
    /\ create_subdirs = TRUE
    /\ pdf_files = <<>>
    /\ idx = 1
    /\ results = EmptyMap
    /\ processed_count = 0
    /\ failed_count = 0
    /\ batch_results = [processed |-> 0, failed |-> 0]
    /\ file_mappings = <<>>
    /\ organized = EmptyMap
    /\ invoked = [f \in Files |-> {}]
    /\ attempted = {}
    /\ copy_failed = {}
    /\ llm_failed = {}
    /\ report_writes = 0
    /\ exception = "none"
    /\ succeeded = {}

Repeat(char, n) == [i \in 1..n |-> char]
StringsUpTo(chars, n) == UNION {[1..k -> chars] : k \in 0..n}

\* --- FileOrganizer._sanitize_folder_name on any topic string
MaxTopicLen == 3
TopicChars == {"A", " ", "/", "_", "?"}
HelloWorld == <<"H","e","l","l","o"," ","W","o","r","l","d">>
TechScience == <<"T","e","c","h","/","S","c","i","e","n","c","e">>

\* short strings, the same strings behind a run of letters that carries them
\* across the 50th character, and the strings of the test suite
TopicStrings ==
    StringsUpTo(TopicChars, MaxTopicLen)
        \cup {Repeat("A", MaxLabelLen - 2) \o t : t \in StringsUpTo(TopicChars, MaxTopicLen)}
        \cup {HelloWorld, TechScience, Repeat("A", 2 * MaxLabelLen)}

InitSanitize ==
    /\ NoOrchestrator
    /\ arg \in TopicStrings
    /\ ret = <<>>
    /\ pc = "call"

\* folder_name = self._sanitize_folder_name(topic)
SanitizeTopic ==
    /\ pc = "call"
    /\ ret' = <<sanitize_folder_name(arg)>>
    /\ pc' = "sanitized"
    /\ UNCHANGED <<orchestrator_vars, arg>>

\* the label sanitized once more
SanitizeLabel ==
    /\ pc = "sanitized"
    /\ ret' = Append(ret, sanitize_folder_name(ret[1]))
    /\ pc' = "resanitized"
    /\ UNCHANGED <<orchestrator_vars, arg>>

NextSanitize ==
    \/ SanitizeTopic
    \/ SanitizeLabel

SpecSanitize == InitSanitize /\ [][NextSanitize]_vars

\* --- PDFAnalysisPipeline._parse_response on the text of a response
\* Strings are sequences of characters.  The JSON read here is the JSON of the
\* responses modelled: objects whose values are strings without escapes,
\* unsigned integers and null, with any white space between the tokens.
SummaryLimit == 200
JsonWhitespace == {" ", "\n", "\t", "\r"}
ControlChars == {"\n", "\t", "\r"}
Digits == {"0", "1", "2", "3", "4", "5", "6", "7", "8", "9"}
topic_key == <<"t", "o", "p", "i", "c">>
summary_key == <<"s", "u", "m", "m", "a", "r", "y">>
Null == <<"n", "u", "l", "l">>
None == <<"N", "o", "n", "e">>

\* s[i], or the empty string past either end
At(s, i) == IF i >= 1 /\ i <= Len(s) THEN s[i] ELSE ""
Least(indexes) == CHOOSE i \in indexes : \A j \in indexes : i <= j
Greatest(indexes) == CHOOSE i \in indexes : \A j \in indexes : i >= j
Indexes(s, char) == {i \in 1..Len(s) : s[i] = char}

\* str.find and str.rfind of one character: a 0-based index, or -1
Find(s, char) == IF Indexes(s, char) = {} THEN -1 ELSE Least(Indexes(s, char)) - 1
RFind(s, char) == IF Indexes(s, char) = {} THEN -1 ELSE Greatest(Indexes(s, char)) - 1

\* s[:n]
Cut(s, n) == SubSeq(s, 1, Min(n, Len(s)))

\* str.strip()
Strip(s) ==
    LET kept == {i \in 1..Len(s) : s[i] \notin Whitespace}
    IN  IF kept = {} THEN <<>> ELSE SubSeq(s, Least(kept), Greatest(kept))

\* str.split(sep) for a one-character sep
RECURSIVE Split(_, _)
Split(s, sep) ==
    IF Indexes(s, sep) = {} THEN <<s>>
    ELSE LET at == Least(Indexes(s, sep))
         IN  <<SubSeq(s, 1, at - 1)>> \o Split(SubSeq(s, at + 1, Len(s)), sep)

\* sep.join(parts)
RECURSIVE JoinWith(_, _)
JoinWith(parts, sep) ==
    IF Len(parts) = 0 THEN <<>>
    ELSE IF Len(parts) = 1 THEN parts[1]
    ELSE parts[1] \o sep \o JoinWith(Tail(parts), sep)

\* JSON values and what str() makes of them
JsonString(text) == [kind |-> "string", text |-> text]
JsonNumber(digits) == [kind |-> "number", text |-> digits]
JsonNull == [kind |-> "null", text |-> <<>>]
PyStr(value) == IF value.kind = "null" THEN None ELSE value.text

\* json.loads: the scanner
SkipWhitespace(s, i) ==
    CHOOSE j \in i..(Len(s) + 1) :
        /\ At(s, j) \notin JsonWhitespace
        /\ \A k \in i..(j - 1) : s[k] \in JsonWhitespace
ScanFail == [ok |-> FALSE, value |-> JsonNull, next |-> 0]
ScanString(s, i) ==
    LET closing == {j \in (i + 1)..Len(s) : s[j] = "\""}
        text == SubSeq(s, i + 1, Least(closing) - 1)
    IN  IF closing = {} THEN ScanFail
        ELSE IF \E k \in 1..Len(text) : text[k] \in ControlChars THEN ScanFail
        ELSE [ok |-> TRUE, value |-> JsonString(text), next |-> Least(closing) + 1]
ScanNumber(s, i) ==
    LET end == CHOOSE j \in i..(Len(s) + 1) :
                   /\ At(s, j) \notin Digits
                   /\ \A k \in i..(j - 1) : s[k] \in Digits
        digits == SubSeq(s, i, end - 1)
    IN  IF Len(digits) > 1 /\ digits[1] = "0"
        THEN [ok |-> TRUE, value |-> JsonNumber(<<"0">>), next |-> i + 1]
        ELSE [ok |-> TRUE, value |-> JsonNumber(digits), next |-> end]
ScanValue(s, i) ==
    IF At(s, i) = "\"" THEN ScanString(s, i)
    ELSE IF At(s, i) \in Digits THEN ScanNumber(s, i)
    ELSE IF i + 3 <= Len(s) /\ SubSeq(s, i, i + 3) = Null
         THEN [ok |-> TRUE, value |-> JsonNull, next |-> i + 4]
    ELSE ScanFail

\* the members of an object from the first key on; a later key replaces an
\* earlier equal one
RECURSIVE ScanMembers(_, _, _)
ScanMembers(s, i, object) ==
    LET key == ScanString(s, i)
        colon == SkipWhitespace(s, key.next)
        value == ScanValue(s, SkipWhitespace(s, colon + 1))
        after == SkipWhitespace(s, value.next)
        members == Put(object, key.value.text, value.value)
    IN  IF At(s, i) # "\"" THEN ScanFail
        ELSE IF ~key.ok THEN ScanFail
        ELSE IF At(s, colon) # ":" THEN ScanFail
        ELSE IF ~value.ok THEN ScanFail
        ELSE IF At(s, after) = "}"
             THEN [ok |-> TRUE, value |-> members, next |-> after + 1]
        ELSE IF At(s, after) = ","
             THEN ScanMembers(s, SkipWhitespace(s, after + 1), members)
        ELSE ScanFail

\* json.loads(json_str) for a json_str that begins with "{"
json_loads(json_str) ==
    LET first == SkipWhitespace(json_str, 2)
        scanned == IF At(json_str, first) = "}"
                   THEN [ok |-> TRUE, value |-> EmptyMap, next |-> first + 1]
                   ELSE ScanMembers(json_str, first, EmptyMap)
    IN  IF scanned.ok /\ SkipWhitespace(json_str, scanned.next) = Len(json_str) + 1
        THEN [raised |-> "", parsed |-> scanned.value]
        ELSE [raised |-> "JSONDecodeError", parsed |-> EmptyMap]

\* the fallback of _parse_response
free_form(response) ==
    LET lines == Split(Strip(response), "\n")
    IN  [raised |-> "", topic |-> Uncategorized,
         summary |-> Cut(JoinWith(lines, <<" ">>), SummaryLimit)]

\* _parse_response stripping the summary before it is cut
parse_response_text_strip_first(response) ==
    LET json_start == Find(response, "{")
        json_end == RFind(response, "}") + 1
        loaded == json_loads(SubSeq(response, json_start + 1, json_end))
    IN  IF json_start >= 0 /\ json_end > json_start /\ loaded.raised = ""
        THEN [raised |-> "",
              topic |-> Strip(PyStr(Get(loaded.parsed, topic_key,
                                        JsonString(Uncategorized)))),
              summary |-> Cut(Strip(PyStr(Get(loaded.parsed, summary_key,
                                              JsonString(<<>>)))), SummaryLimit)]
        ELSE free_form(response)

\* _parse_response with a fallback that keeps the whole text
parse_response_text_no_cut(response) ==
    LET json_start == Find(response, "{")
        json_end == RFind(response, "}") + 1
        loaded == json_loads(SubSeq(response, json_start + 1, json_end))
    IN  IF json_start >= 0 /\ json_end > json_start /\ loaded.raised = ""
        THEN [raised |-> "",
              topic |-> Strip(PyStr(Get(loaded.parsed, topic_key,
                                        JsonString(Uncategorized)))),
              summary |-> Strip(Cut(PyStr(Get(loaded.parsed, summary_key,
                                              JsonString(<<>>))), SummaryLimit))]
        ELSE [raised |-> "", topic |-> Uncategorized,
              summary |-> JoinWith(Split(Strip(response), "\n"), <<" ">>)]

\* _parse_response on the characters of the response; the only exception
\* caught is json.JSONDecodeError
parse_response_text(response) ==
    LET json_start == Find(response, "{")
        json_end == RFind(response, "}") + 1
        loaded == json_loads(SubSeq(response, json_start + 1, json_end))
    IN  IF json_start >= 0 /\ json_end > json_start /\ loaded.raised = ""
        THEN [raised |-> "",
              topic |-> Strip(PyStr(Get(loaded.parsed, topic_key,
                                        JsonString(Uncategorized)))),
              summary |-> Strip(Cut(PyStr(Get(loaded.parsed, summary_key,
                                              JsonString(<<>>))), SummaryLimit))]
        ELSE free_form(response)

\* The responses: JSON objects written out from their members, alone or
\* inside other text, and texts that hold no JSON object.  Each response
\* carries what it was written from.
Absent == [kind |-> "absent", text |-> <<>>]
other_key == <<"k">>
About ==
    <<"A", "b", "o", "u", "t", " ", "a", "r", "t", "i", "f", "i", "c", "i",
      "a", "l", " ", "i", "n", "t", "e", "l", "l", "i", "g", "e", "n", "c",
      "e">>
ExampleResponse ==
    <<"{", "\"", "t", "o", "p", "i", "c", "\"", ":", " ", "\"", "A", "I", "\"",
      ",", " ", "\"", "s", "u", "m", "m", "a", "r", "y", "\"", ":", " ", "\"",
      "A", "b", "o", "u", "t", " ", "a", "r", "t", "i", "f", "i", "c", "i",
      "a", "l", " ", "i", "n", "t", "e", "l", "l", "i", "g", "e", "n", "c",
      "e", "\"", "}">>
RandomText ==
    <<"S", "o", "m", "e", " ", "r", "a", "n", "d", "o", "m", " ", "t", "e",
      "x", "t", " ", "w", "i", "t", "h", "o", "u", "t", " ", "J", "S", "O",
      "N">>

TopicValues ==
    {Absent, JsonString(TopicAI), JsonString(<<" ", "A", "I", " ">>), JsonNull,
     JsonNumber(<<"7">>)}
SummaryValues ==
    {Absent, JsonString(About), JsonString(Repeat("s", SummaryLimit + 1)),
     JsonString(Repeat("s", SummaryLimit - 1) \o <<" ", "x">>),
     JsonString(<<" ">> \o Repeat("s", SummaryLimit - 1) \o <<"x", "y">>)}
OtherValues == {Absent, JsonString(<<"a", "}", "{">>)}

Present(member) == member[2].kind # "absent"
MemberLists ==
    {SelectSeq(<< <<topic_key, t>>, <<summary_key, m>>, <<other_key, o>> >>, Present) :
        t \in TopicValues, m \in SummaryValues, o \in OtherValues}
      \cup {<< <<summary_key, JsonString(About)>>, <<topic_key, JsonString(TopicAI)>> >>,
            << <<topic_key, JsonString(TopicFinance)>>,
               <<topic_key, JsonString(TopicAI)>> >>}

WriteValue(value) ==
    IF value.kind = "string" THEN <<"\"">> \o value.text \o <<"\"">>
    ELSE IF value.kind = "null" THEN Null
    ELSE value.text
WriteMember(member) ==
    <<"\"">> \o member[1] \o <<"\"", ":", " ">> \o WriteValue(member[2])
WriteObject(members) ==
    <<"{">> \o JoinWith([i \in 1..Len(members) |-> WriteMember(members[i])],
                        <<",", " ">>) \o <<"}">>
ObjectOf(members) ==
    [key \in {members[i][1] : i \in 1..Len(members)} |->
        members[Greatest({i \in 1..Len(members) : members[i][1] = key})][2]]

OpenBefore == <<"{", " ">>
CloseAfter == <<" ", "}">>
Prefixes == {<<>>, <<"S", "u", "r", "e", ":", "\n">>, <<"}", " ">>, OpenBefore}
Suffixes == {<<>>, <<"\n", "D", "o", "n", "e", ".">>, <<" ", "{">>, CloseAfter}

FreeTexts ==
    {<<>>, <<" ">>, <<"\n">>, <<" ", "\n", "\t">>, RandomText,
     <<"a", "\n", "b">>, <<" ", "a", " ", "\n", "\n", " ", "b", "\n">>,
     Repeat("w", SummaryLimit - 1) \o <<"\n">> \o Repeat("w", SummaryLimit),
     <<"}", " ", "{">>, <<"{">>, <<"}">>}
NoClosingBrace ==
    <<"{", "\"", "t", "o", "p", "i", "c", "\"", ":", " ", "\"", "A", "I", "\"">>
NoColon ==
    <<"{", "\"", "t", "o", "p", "i", "c", "\"", " ", "\"", "A", "I", "\"", "}">>
TrailingComma ==
    <<"{", "\"", "t", "o", "p", "i", "c", "\"", ":", " ", "\"", "A", "I", "\"",
      ",", "}">>
BareKey ==
    <<"{", "t", "o", "p", "i", "c", ":", " ", "\"", "A", "I", "\"", "}">>
SingleQuotes ==
    <<"{", "'", "t", "o", "p", "i", "c", "'", ":", " ", "'", "A", "I", "'",
      "}">>
LineInString ==
    <<"{", "\"", "t", "o", "p", "i", "c", "\"", ":", " ", "\"", "A", "\n", "I",
      "\"", "}">>
LeadingZero ==
    <<"{", "\"", "t", "o", "p", "i", "c", "\"", ":", " ", "0", "7", "}">>
NoClosingQuote ==
    <<"{", "\"", "t", "o", "p", "i", "c", "\"", ":", " ", "\"", "A", "I", "}">>
BrokenJson ==
    {NoClosingBrace, NoColon, TrailingComma, BareKey, SingleQuotes, LineInString,
     LeadingZero, NoClosingQuote}

ResponseCases ==
    {[response |-> before \o WriteObject(members) \o after,
      parseable |-> before # OpenBefore /\ after # CloseAfter,
      object |-> ObjectOf(members)] :
        before \in Prefixes, members \in MemberLists, after \in Suffixes}
      \cup {[response |-> text, parseable |-> FALSE, object |-> EmptyMap] :
                text \in FreeTexts \cup BrokenJson}

InitParse ==
    /\ NoOrchestrator
    /\ arg \in ResponseCases
    /\ ret = <<>>
    /\ pc = "call"

\* result = self._parse_response(response)
ParseResponse ==
    /\ pc = "call"
    /\ ret' = parse_response_text(arg.response)
    /\ pc' = "parsed"
    /\ UNCHANGED <<orchestrator_vars, arg>>

NextParse == ParseResponse

SpecParse == InitParse /\ [][NextParse]_vars

\* --- PDFExtractor(max_pages).extract_text on any document
MaxPages == 3
OtherPage == <<"u">>
PageTexts == {BlankPage, TextPage, OtherPage}
Documents ==
    {Doc(FALSE, <<>>)} \cup {Doc(TRUE, pages) : pages \in StringsUpTo(PageTexts, MaxPages)}

\* Config.MAX_PAGES_PER_PDF is int(os.getenv("MAX_PAGES_PER_PDF", "50")): any
\* count from 0 to one more than the longest document
InitExtract ==
    /\ NoOrchestrator
    /\ arg \in [max_pages : 0..(MaxPages + 1), doc : Documents]
    /\ ret = <<>>
    /\ pc = "call"

\* text = self.extractor.extract_text(pdf_path)
ExtractText ==
    /\ pc = "call"
    /\ ret' = [read |-> pages_read(arg.max_pages, arg.doc),
               result |-> extract_text(arg.max_pages, arg.doc)]
    /\ pc' = "extracted"
    /\ UNCHANGED <<orchestrator_vars, arg>>

NextExtract == ExtractText

SpecExtract == InitExtract /\ [][NextExtract]_vars

\* ---------------------------------------------------------------- claims
\* report.json is still the one the run's skip checks read
ReportAsRead ==
    \/ pc \in {"batch", "batch_returned", "organizing", "organized"}
    \/ pc = "raised" /\ exception # "report_write"

\* C1: a document whose name is the `file` of an entry of processing_details of
\* the report.json found on disk gets status "skipped", and none of
\* extract_text, extract_metadata, generate_topic_and_summary and
\* extract_key_entities is invoked for it.
C1_SkipListed ==
    ReportAsRead =>
        \A name \in DOMAIN results :
            (report_json.exists /\ name \in ReportedFiles(report_json)) =>
                /\ results[name].status = "skipped"
                /\ invoked[name] = {}

C1_Witness ==
    /\ pc = "batch_returned"
    /\ \E name \in DOMAIN results :
          /\ report_json.exists
          /\ name \in ReportedFiles(report_json)
          /\ results[name].status = "skipped"

\* C2: an exception raised by text extraction or by analysis never escapes
\* process_pdf: the document gets status "error" with the exception's message,
\* and when process_batch returns every PDF of the directory has a result,
\* whatever happened to the files before it.
ExtractionError(name) == extract_text(MAX_PAGES_PER_PDF, pdf_dir[name])

C2_ErrorsAreResults ==
    /\ exception \notin {"extract_text", "analysis"}
    /\ \A name \in DOMAIN results :
          (results[name].status # "skipped" /\ ExtractionError(name).raised) =>
              /\ results[name].status = "error"
              /\ results[name].error = ExtractionError(name).error
    /\ pc = "batch_returned" =>
          /\ DOMAIN results = DOMAIN pdf_dir
          /\ Len(pdf_files) = Cardinality(DOMAIN pdf_dir)

C2_Witness ==
    /\ pc = "batch_returned"
    /\ \E i, j \in 1..Len(pdf_files) :
          /\ i < j
          /\ results[pdf_files[i]].status = "error"
          /\ results[pdf_files[j]].status = "success"

\* C3: once the orchestrator is constructed, the only exception that can escape
\* run() is a failure to write report.json.
C3_OnlyReportWriteAborts ==
    pc = "raised" => exception = "report_write"

\* C4: every entry of processing_details of a report written by
\* _generate_report names a file whose result has status "success".
C4_DetailsAreSuccesses ==
    pc = "done" =>
        \A name \in ReportedFiles(report_json) :
            /\ name \in DOMAIN results
            /\ results[name].status = "success"

C4_Witness ==
    /\ pc = "done"
    /\ ReportedFiles(report_json) # {}
    /\ \E name \in DOMAIN results : results[name].status = "error"

\* C5: for a directory with at least one PDF, process_batch returns
\* processed = number of "success" results, failed = number of "error"
\* results, total = number of PDFs found, and
\* processed + failed + number of "skipped" results = total.
WithStatus(status) == {name \in DOMAIN results : results[name].status = status}

C5_CountsFromStatuses ==
    (pc = "batch_returned" /\ DOMAIN pdf_dir # {}) =>
        /\ DOMAIN batch_results = {"processed", "failed", "total"}
        /\ batch_results.processed = Cardinality(WithStatus("success"))
        /\ batch_results.failed = Cardinality(WithStatus("error"))
        /\ batch_results.total = Cardinality(DOMAIN pdf_dir)
        /\ batch_results.processed + batch_results.failed
               + Cardinality(WithStatus("skipped")) = batch_results.total

C5_Witness ==
    /\ pc = "batch_returned"
    /\ WithStatus("success") # {}
    /\ WithStatus("skipped") # {}

\* C6: when the model call raises inside generate_topic_and_summary, nothing
\* escapes: the document is recorded with status "success" and the analysis
\* topic "Uncategorized", summary "Failed to process", and the batch goes on
\* to the files after it.
C6_ModelFailureDegrades ==
    /\ exception # "analysis"
    /\ DOMAIN generate_topic_and_summary(LLMRaise) = {"topic", "summary", "error"}
    /\ \A name \in llm_failed :
          /\ name \in DOMAIN results
          /\ results[name].status = "success"
          /\ results[name].analysis.topic = Uncategorized
          /\ results[name].analysis.summary = "Failed to process"
    /\ pc = "batch_returned" => DOMAIN results = DOMAIN pdf_dir

C6_Witness ==
    /\ pc = "batch_returned"
    /\ \E i, j \in 1..Len(pdf_files) :
          /\ i < j
          /\ pdf_files[i] \in llm_failed
          /\ results[pdf_files[j]].status = "success"
          /\ pdf_files[j] \notin llm_failed

\* C7: within one run no file is copied under the output root before every PDF
\* of the input directory has a result, report.json is written only after
\* organizing has finished and only once, and the report a finished run leaves
\* holds that run's entries alone, nothing of the report it replaced.
C7_StrictOrder ==
    /\ [][ /\ (out_files' \ out_files # {}) =>
                 (pc = "organizing" /\ DOMAIN results = DOMAIN pdf_dir)
           /\ (report_writes' > report_writes) =>
                 (pc = "organized" /\ report_writes = 0) ]_vars
    /\ [](pc = "done" =>
             /\ report_writes = 1
             /\ report_json.exists /\ report_json.valid
             /\ ReportedFiles(report_json) = WithStatus("success")
             /\ report_json.data.summary.total_files = Len(pdf_files))

C7_Witness ==
    /\ pc = "done"
    /\ out_files # {}
    /\ WithStatus("skipped") # {}
    /\ report_writes = 1

\* C8: for an input directory without any PDF the batch reports processed 0,
\* failed 0, total 0, nothing is copied, no topic is organized and the
\* report's topics are empty and its topics_identified is 0.
C8_EmptyDirectory ==
    /\ (DOMAIN pdf_dir = {} /\ pc \in {"batch_returned", "organized", "done", "raised"}) =>
          /\ batch_results.processed = 0
          /\ batch_results.failed = 0
          /\ out_files = {}
          /\ out_dirs = {}
          /\ DOMAIN organized = {}
    /\ (DOMAIN pdf_dir = {} /\ pc = "done") =>
          /\ report_json.data.summary =
                 [total_files |-> 0, processed |-> 0, failed |-> 0,
                  topics_identified |-> 0]
          /\ DOMAIN report_json.data.topics = {}
          /\ report_json.data.processing_details = <<>>

C8_Witness ==
    /\ DOMAIN pdf_dir = {}
    /\ pc = "done"
    /\ report_json.valid

\* C9: when the copy of one document fails in organize_by_topic, nothing
\* escapes, that document has no destination in the returned mapping, and
\* every other document of the mapping is still attempted.
Destinations == UNION {Range(organized[topic]) : topic \in DOMAIN organized}

C9_CopyFailureIsLocal ==
    /\ exception # "copy"
    /\ \A name \in copy_failed : \A dest \in Destinations : dest.name # name
    /\ \A name \in attempted \ copy_failed : \E dest \in Destinations : dest.name = name
    /\ (pc \in {"organized", "done"} /\ file_mappings # <<>>) =>
          attempted = Range(file_mappings)

C9_Witness ==
    /\ pc = "organized"
    /\ \E i, j \in 1..Len(file_mappings) :
          /\ i < j
          /\ file_mappings[i] \in copy_failed
          /\ file_mappings[j] \notin copy_failed
          /\ \E dest \in Destinations : dest.name = file_mappings[j]

\* C10: in sub-directory mode, after organize_by_topic every document whose
\* copy succeeded is at <output_root>/<sanitized topic>/<original name> and
\* that path is listed under the document's topic in the returned mapping;
\* the folders made are exactly the sanitized labels of the mapped documents:
\* "AI" and "Finance" give the folders AI and Finance, "A/I" the folder A_I.
TopicOf(name) == results[name].analysis.topic
MappedTopics == {TopicOf(name) : name \in Range(file_mappings)}
InFolder(name) ==
    [dir |-> sanitize_folder_name(TopicOf(name)), prefix |-> <<>>, name |-> name]

C10_TopicFolders ==
    (pc \in {"organized", "done"} /\ create_subdirs /\ file_mappings # <<>>) =>
        /\ \A name \in attempted \ copy_failed :
              /\ InFolder(name) \in out_files
              /\ TopicOf(name) \in DOMAIN organized
              /\ InFolder(name) \in Range(organized[TopicOf(name)])
        /\ out_dirs = {sanitize_folder_name(topic) : topic \in MappedTopics}
        /\ MappedTopics = {TopicAI, TopicFinance} =>
              out_dirs = {<<"A","I">>, <<"F","i","n","a","n","c","e">>}
        /\ TopicSlash \in MappedTopics => <<"A","_","I">> \in out_dirs
        /\ \A dir \in out_dirs : \A k \in 1..Len(dir) : dir[k] # "/"

C10_Witness ==
    /\ pc = "organized"
    /\ create_subdirs
    /\ MappedTopics = {TopicAI, TopicFinance}
    /\ Cardinality(out_files) = 2
    /\ out_dirs = {TopicAI, TopicFinance}

\* C16: extract_text raises when the path does not exist, when the reader
\* reports no page and when every page is blank; process_pdf then records the
\* document with status "error", carrying that failure's message, and no
\* analysis call is made for it.
AllBlank(doc) == \A k \in 1..Len(doc.pages) : ~HasText(doc.pages[k])

ErrorWith(name, message) ==
    /\ results[name].status = "error"
    /\ results[name].error = message
    /\ invoked[name] \cap AnalysisCalls = {}

C16_ExtractionFailures ==
    \A name \in DOMAIN results :
        results[name].status # "skipped" =>
            /\ ~pdf_dir[name].exists => ErrorWith(name, "PDF file not found")
            /\ (pdf_dir[name].exists /\ Len(pdf_dir[name].pages) = 0) =>
                  ErrorWith(name, "PDF has no pages")
            /\ (pdf_dir[name].exists /\ Len(pdf_dir[name].pages) > 0
                   /\ AllBlank(pdf_dir[name])) =>
                  ErrorWith(name, "No readable text found in PDF")

C16_Witness ==
    /\ pc = "batch_returned"
    /\ \E a, b \in DOMAIN results :
          /\ pdf_dir[a] = Doc(TRUE, <<>>)
          /\ results[a].status = "error"
          /\ pdf_dir[b] = Doc(TRUE, <<BlankPage>>)
          /\ results[b].status = "error"

\* C18: over complete runs on an unchanged input directory, a file that had
\* status "success" in some run is listed in processing_details after every
\* later run, and has status "skipped", with no extraction or analysis call,
\* in every later run.
C18_ResumeIsStable ==
    \A name \in succeeded :
        /\ pc = "done" => name \in ReportedFiles(report_json)
        /\ name \in DOMAIN results =>
              /\ results[name].status = "skipped"
              /\ invoked[name] = {}

\* C19: a document whose result is "skipped" or "error" is never copied under
\* the output root, never listed in the report's topics and never written to
\* index.json; when no document has status "success" organize_files copies
\* nothing and returns an empty mapping.
C19_OnlySuccessesOrganized ==
    /\ \A name \in DOMAIN results :
          results[name].status # "success" =>
              /\ \A path \in out_files : path.name # name
              /\ \A dest \in Destinations : dest.name # name
              /\ name \notin DOMAIN index_json.data
              /\ pc = "done" => \A entry \in
                     UNION {Range(report_json.data.topics[topic].files) :
                               topic \in DOMAIN report_json.data.topics} :
                         entry.name # name
    /\ (WithStatus("success") = {} /\ pc \in {"organized", "done"}) =>
          /\ out_files = {}
          /\ out_dirs = {}
          /\ DOMAIN organized = {}
          /\ ~index_json.exists

C19_Witness ==
    /\ pc = "done"
    /\ index_json.exists
    /\ out_files # {}
    /\ WithStatus("skipped") # {}
    /\ WithStatus("success") # {}

C12_SanitizeIdempotent ==
    pc = "resanitized" => ret[2] = ret[1]

C12_Witness ==
    /\ pc = "resanitized"
    /\ Len(arg) > 50
    /\ \E i \in 1..Len(arg) : arg[i] = "/"
    /\ ret[2] = ret[1]

SpaceOrInvalid == {" ", "<", ">", ":", "\"", "|", "?", "*", "/"}
Underscored(x) == [i \in 1..Len(x) |-> IF x[i] \in SpaceOrInvalid THEN "_" ELSE x[i]]
First50(x) == [i \in 1..(IF Len(x) < 50 THEN Len(x) ELSE 50) |-> x[i]]

\* C13: the label is the topic with each space and each of <>:"|?*/ replaced
\* by an underscore, cut to its first 50 characters, or "unknown" when that is
\* empty; so it is never empty, never longer than 50 characters and holds no
\* space and none of those characters.
C13_SanitizeResult ==
    pc \in {"sanitized", "resanitized"} =>
        /\ ret[1] = IF First50(Underscored(arg)) = <<>>
                    THEN <<"u","n","k","n","o","w","n">>
                    ELSE First50(Underscored(arg))
        /\ ret[1] # <<>>
        /\ Len(ret[1]) <= 50
        /\ \A i \in 1..Len(ret[1]) : ret[1][i] \notin SpaceOrInvalid
        /\ arg = HelloWorld =>
              ret[1] = <<"H","e","l","l","o","_","W","o","r","l","d">>
        /\ arg = TechScience =>
              ret[1] = <<"T","e","c","h","_","S","c","i","e","n","c","e">>
        /\ arg = Repeat("A", 100) => ret[1] = Repeat("A", 50)

C13_Witness ==
    /\ pc = "sanitized"
    /\ arg = Repeat("A", MaxLabelLen - 2) \o <<" ", "/", "A">>
    /\ ret[1] = Repeat("A", MaxLabelLen - 2) \o <<"_", "_">>

\* C14: when the text from the first "{" to the last "}" of the response is a
\* JSON object, the topic is the object's topic value as a stripped string
\* ("Uncategorized" when the key is absent) and the summary is the object's
\* summary value as a string cut to 200 characters and stripped (empty when
\* absent); the example of the test suite gives exactly its two values.
C14_ParsedJson ==
    (pc = "parsed" /\ arg.parseable) =>
        /\ ret.raised = ""
        /\ ret.topic =
              Strip(PyStr(Get(arg.object, topic_key, JsonString(Uncategorized))))
        /\ ret.summary =
              Strip(Cut(PyStr(Get(arg.object, summary_key, JsonString(<<>>))), 200))
        /\ arg.response = ExampleResponse =>
              /\ ret.topic = <<"A", "I">>
              /\ ret.summary = About

C14_Witness ==
    /\ pc = "parsed"
    /\ arg.parseable
    /\ arg.response # WriteObject(<<>>)
    /\ Find(arg.response, "{") > 0
    /\ topic_key \in DOMAIN arg.object
    /\ Len(PyStr(Get(arg.object, summary_key, JsonString(<<>>)))) > 200
    /\ Len(ret.summary) = 199

\* C15 as stated: a response without a parseable JSON object gives the topic
\* "Uncategorized" and a summary that is non-empty and at most 200 characters
\* long, without raising.
C15_FallbackNonEmpty ==
    (pc = "parsed" /\ ~arg.parseable) =>
        /\ ret.raised = ""
        /\ ret.topic = Uncategorized
        /\ ret.summary # <<>>
        /\ Len(ret.summary) <= 200

\* C15, amended: a response without a parseable JSON object gives, without
\* raising, the topic "Uncategorized" and as summary the stripped response
\* with its line breaks turned into single spaces, cut to 200 characters; the
\* summary is non-empty exactly when the response has a character that is not
\* white space.
C15_Fallback ==
    (pc = "parsed" /\ ~arg.parseable) =>
        /\ ret.raised = ""
        /\ ret.topic = Uncategorized
        /\ ret.summary = Cut(Replace(Strip(arg.response), "\n", " "), 200)
        /\ Len(ret.summary) <= 200
        /\ ret.summary # <<>> <=> HasText(arg.response)

C15_Witness ==
    /\ pc = "parsed"
    /\ ~arg.parseable
    /\ Len(arg.response) > 200
    /\ Indexes(arg.response, "\n") # {}
    /\ Len(ret.summary) = 200

\* C17: for every configured max_pages and every document with n >= 1 pages,
\* extract_text reads exactly the first min(max_pages, n) pages and returns the
\* texts of the non-blank pages among them, in page order, joined by newlines,
\* skipping a blank page in the range without error.
C17_PageCap ==
    (pc = "extracted" /\ arg.doc.exists /\ Len(arg.doc.pages) >= 1) =>
        LET n == Len(arg.doc.pages)
            cap == IF arg.max_pages < n THEN arg.max_pages ELSE n
            texts == SelectSeq([i \in 1..cap |-> arg.doc.pages[i]], HasText)
        IN  /\ ret.read = 1..cap
            /\ ~ret.result.raised
            /\ ret.result.text = JoinLines(texts)

====
